---- MODULE Spec2Model ----
(***************************************************************************)
(* The signaling relay of lambda-chat-server (src/unnamed/part_000, lines  *)
(* 1-102): the registry `clients`, the id counter `nextClientId` and the   *)
(* three callbacks the relay installs on every accepted WebSocket: the     *)
(* one-shot register handler, the forwarding handler and the close         *)
(* handler.  Node runs each callback to completion, so each callback is    *)
(* one atomic action.  Lines 103-167 of the file hold an earlier relay,    *)
(* without registration; it is not part of this model.                     *)
(*                                                                         *)
(* A transport is a record:                                                *)
(*   clientId     the id `const clientId = nextClientId++` gave it         *)
(*   readyState   "OPEN", "CLOSING" or "CLOSED", as ws.readyState          *)
(*   receiving    frames of the peer are still read from it                *)
(*   onceMessage  the ws.once('message') listener has not run yet          *)
(*   onMessage    the ws.on('message') listener is installed               *)
(*   username     `const username` in the closure of the listeners         *)
(*   first        what its first frame was: "none" yet, a "register" frame *)
(*                or any "other" frame (history, read by no callback)      *)
(* `sent` is what the callback that ran last passed to ws.send: it is      *)
(* empty when a callback starts.                                           *)
(***************************************************************************)
EXTENDS Integers, Sequences, FiniteSets, TLC

\* ------------------------------------------------------------------ bounds
MaxConnections == 3      \* transports the relay accepts in one run
MaxHandles == 2          \* RTCPeerConnection objects a page creates in one run
MaxPending == 1          \* callbacks of a page suspended at an await at once
MaxPages == 2            \* pages that run against the relay in one run
MaxQueue == 2            \* frames in flight on one WebSocket in one direction

\* ------------------------------------------------------------ value domains
Undefined == "<undefined>"     \* a property that is absent from a JSON object
NoId == 0                      \* an absent (or falsy) numeric property
Usernames == {"alice", "bob"}
TargetIds == 0..MaxConnections \* targetPeerId values a client may put in a frame

\* The senderId and username a client writes in a frame it sends: none (as
\* the client of this repository does), or those of peer 1, "alice".
NoClaim == [senderId |-> NoId, username |-> Undefined]

ClaimedIdentities == {NoClaim, [senderId |-> 1, username |-> "alice"]}

\* A frame on the wire.  json says what JSON.parse makes of the text:
\* "malformed" (throws), "null" (the JSON value null) or "object".
RegisterFrames ==
    [json : {"object"}, type : {"register"}, username : Usernames,
     senderId : {NoId}, targetPeerId : {NoId}]

OfferFrames ==
    {[json |-> "object", type |-> "offer", username |-> c.username,
      senderId |-> c.senderId, targetPeerId |-> t] : c \in ClaimedIdentities, t \in TargetIds}

ObjectFrames == RegisterFrames \cup OfferFrames

MalformedFrame ==
    [json |-> "malformed", type |-> Undefined, username |-> Undefined,
     senderId |-> NoId, targetPeerId |-> NoId]

NullFrame ==
    [json |-> "null", type |-> Undefined, username |-> Undefined,
     senderId |-> NoId, targetPeerId |-> NoId]

Frames == ObjectFrames \cup {MalformedFrame, NullFrame}

VARIABLES
    nextClientId,   \* let nextClientId
    clients,        \* the Map clientId -> {ws, username, clientId}, in insertion order
    sockets,        \* the accepted transports, in connection order
    sent,           \* sent[s]: what the callback that ran last passed to ws.send of
                    \* transport s, in order
    crashed         \* the process died of an uncaught exception

vars == <<nextClientId, clients, sockets, sent, crashed>>

VARIABLES
    browsers,       \* the pages that ran initP2PChat (src/client.js)
    wire            \* the WebSockets between the pages and the relay: the frames
                    \* in flight towards the relay and towards each page

\* no page is connected
NoWire == <<>>

\* ------------------------------------------------------- the Map `clients`
\* A JavaScript Map keeps its entries in insertion order; an entry is the
\* record the register handler stores, its key is the entry's clientId.
MapHas(map, key) == \E i \in 1..Len(map) : map[i].clientId = key

MapGet(map, key) == map[CHOOSE i \in 1..Len(map) : map[i].clientId = key]

MapSet(map, entry) ==
    IF MapHas(map, entry.clientId)
    THEN [i \in 1..Len(map) |->
            IF map[i].clientId = entry.clientId THEN entry ELSE map[i]]
    ELSE Append(map, entry)

\* (faulty variant: the entry is never deleted)
MapDeleteKeep(map, key) == map

MapDelete(map, key) == SelectSeq(map, LAMBDA e : e.clientId # key)

MapKeys(map) == {map[i].clientId : i \in 1..Len(map)}

\* ------------------------------------------------------------ JSON, ws.send
\* JSON.parse(message): throws on malformed text; the text "null" parses to
\* null, on which any property access throws a TypeError.
JSONParse(message) ==
    [threw |-> message.json = "malformed",
     isNull |-> message.json = "null",
     data |-> [type |-> message.type, username |-> message.username,
               senderId |-> message.senderId,
               targetPeerId |-> message.targetPeerId]]

\* nothing sent yet: the state of ws.send when a callback starts
Quiet(socks) == [s \in DOMAIN socks |-> <<>>]

\* ws.send(JSON.stringify(envelope)) on transport s
Send(snt, s, envelope) == [snt EXCEPT ![s] = Append(@, envelope)]

\* ws.close(): an open transport starts its closing handshake
WsClose(sock) ==
    IF sock.readyState = "OPEN" THEN [sock EXCEPT !.readyState = "CLOSING"] ELSE sock

\* ---------------------------------------------------------------- envelopes
ExistingPeersEnvelope(existingPeers) ==
    [type |-> "existing-peers", peers |-> existingPeers]

NewPeerEnvelope(clientId, username) ==
    [type |-> "new-peer", peerId |-> clientId, username |-> username]

PeerDisconnectedEnvelope(clientId, username) ==
    [type |-> "peer-disconnected", peerId |-> clientId, username |-> username]

\* ------------------------------------------------------------------- state
Init ==
    /\ nextClientId = 1
    /\ clients = <<>>
    /\ sockets = <<>>
    /\ sent = <<>>
    /\ crashed = FALSE
    /\ browsers = <<>>
    /\ wire = NoWire

\* (faulty variant: the counter is read but not advanced)
PostIncrementStuck(n) == n

PostIncrement(n) == n + 1

\* wss.on('connection'): the transport gets the next id and its two listeners
Connection ==
    /\ ~crashed
    /\ Len(sockets) < MaxConnections
    /\ LET clientId == nextClientId IN
        /\ nextClientId' = PostIncrement(nextClientId)
        /\ sockets' = Append(sockets,
                [clientId |-> clientId, readyState |-> "OPEN", receiving |-> TRUE,
                 onceMessage |-> TRUE, onMessage |-> FALSE, username |-> Undefined,
                 first |-> "none"])
        /\ sent' = Quiet(sockets')
    /\ UNCHANGED <<clients, crashed>>

\* ------------------------------------------------- ws.once('message', ...)
\* (faulty variant: the type of the first frame is not looked at)
FirstFrameRefusedOnThrow(parsed) == parsed.threw \/ parsed.isNull

\* the first frame is refused: JSON.parse threw, reading data.type of null
\* threw (both end in the catch), or data.type is not 'register'
FirstFrameRefused(parsed) ==
    \/ parsed.threw
    \/ parsed.isNull
    \/ parsed.data.type # "register"

\* what the wire protocol calls a register frame (recorded per transport)
IsRegisterFrame(message) == message.json = "object" /\ message.type = "register"

\* (faulty variant: the new peer itself is not filtered out)
ExistingPeersUnfiltered(map, clientId) ==
    [i \in 1..Len(map) |->
        [clientId |-> map[i].clientId, username |-> map[i].username]]

ExistingPeers(map, clientId) ==
    LET others == SelectSeq(map, LAMBDA e : e.clientId # clientId)
    IN  [i \in 1..Len(others) |->
            [clientId |-> others[i].clientId, username |-> others[i].username]]

SendExistingPeers(snt, s, existingPeers) ==
    IF Len(existingPeers) > 0
    THEN Send(snt, s, ExistingPeersEnvelope(existingPeers))
    ELSE snt

\* (faulty variant: the new peer is notified of itself too)
RECURSIVE NotifyNewPeerAll(_, _, _, _, _, _)
NotifyNewPeerAll(map, socks, snt, clientId, username, i) ==
    IF i > Len(map) THEN snt
    ELSE LET client == map[i]
             after == IF socks[client.ws].readyState = "OPEN"
                      THEN Send(snt, client.ws, NewPeerEnvelope(clientId, username))
                      ELSE snt
         IN  NotifyNewPeerAll(map, socks, after, clientId, username, i + 1)

\* clients.forEach((client, id) => ...) of the register handler, from entry i on
RECURSIVE NotifyNewPeer(_, _, _, _, _, _)
NotifyNewPeer(map, socks, snt, clientId, username, i) ==
    IF i > Len(map) THEN snt
    ELSE LET client == map[i]
             after == IF /\ client.clientId # clientId
                         /\ socks[client.ws].readyState = "OPEN"
                      THEN Send(snt, client.ws, NewPeerEnvelope(clientId, username))
                      ELSE snt
         IN  NotifyNewPeer(map, socks, after, clientId, username, i + 1)

OnceMessage(s, message) ==
    /\ ~crashed
    /\ sockets[s].receiving
    /\ sockets[s].onceMessage
    /\ LET parsed == JSONParse(message)
           clientId == sockets[s].clientId
           seen == [sockets[s] EXCEPT
                       !.onceMessage = FALSE,
                       !.first = IF IsRegisterFrame(message) THEN "register" ELSE "other"]
       IN  IF FirstFrameRefused(parsed)
           THEN /\ sockets' = [sockets EXCEPT ![s] = WsClose(seen)]
                /\ sent' = Quiet(sockets)
                /\ UNCHANGED clients
           ELSE LET username == parsed.data.username
                    registry == MapSet(clients,
                        [ws |-> s, username |-> username, clientId |-> clientId])
                    existingPeers == ExistingPeers(registry, clientId)
                    greeted == SendExistingPeers(Quiet(sockets), s, existingPeers)
                IN  /\ clients' = registry
                    /\ sent' = NotifyNewPeer(registry, sockets, greeted,
                                             clientId, username, 1)
                    /\ sockets' = [sockets EXCEPT ![s] =
                           [seen EXCEPT !.onMessage = TRUE, !.username = username]]
    /\ UNCHANGED <<nextClientId, crashed>>

\* --------------------------------------------------- ws.on('message', ...)
\* (faulty variant: a senderId the client wrote is kept)
StampIfAbsent(data, clientId, username) ==
    [data EXCEPT !.senderId = IF @ # NoId THEN @ ELSE clientId,
                 !.username = username]

\* data.senderId = clientId; data.username = username
Stamp(data, clientId, username) ==
    [data EXCEPT !.senderId = clientId, !.username = username]

\* (faulty variant: the target's readyState is not looked at)
ForwardToAnyState(map, socks, snt, data) ==
    IF data.targetPeerId # NoId /\ MapHas(map, data.targetPeerId)
    THEN Send(snt, MapGet(map, data.targetPeerId).ws, data)
    ELSE snt

\* if (data.targetPeerId) { ... targetPeer.ws.send(JSON.stringify(data)) }
Forward(map, socks, snt, data) ==
    IF data.targetPeerId # NoId
    THEN IF MapHas(map, data.targetPeerId)
         THEN LET targetPeer == MapGet(map, data.targetPeerId)
              IN  IF socks[targetPeer.ws].readyState = "OPEN"
                  THEN Send(snt, targetPeer.ws, data)
                  ELSE snt
         ELSE snt
    ELSE snt

\* The handler runs outside the try block that installed it: when JSON.parse
\* throws, or data is null, the exception is uncaught and ends the process.
OnMessage(s, message) ==
    /\ ~crashed
    /\ sockets[s].receiving
    /\ ~sockets[s].onceMessage
    /\ sockets[s].onMessage
    /\ UNCHANGED <<nextClientId, clients, sockets>>
    /\ LET parsed == JSONParse(message) IN
        IF parsed.threw \/ parsed.isNull
        THEN /\ crashed' = TRUE
             /\ sent' = Quiet(sockets)
        ELSE /\ sent' = Forward(clients, sockets, Quiet(sockets),
                    Stamp(parsed.data, sockets[s].clientId, sockets[s].username))
             /\ UNCHANGED crashed

\* a frame on a transport whose one-shot listener is spent and which has no
\* forwarding listener: 'message' is emitted to nobody, whatever the frame holds
NoListener(s) ==
    /\ ~crashed
    /\ sockets[s].receiving
    /\ ~sockets[s].onceMessage
    /\ ~sockets[s].onMessage
    /\ sent' = Quiet(sockets)
    /\ UNCHANGED <<nextClientId, clients, sockets, crashed>>

\* ------------------------------------------------------- ws.on('close', ...)
\* the peer's close frame is seen on an open transport: no frame is read from
\* it any more and it is no longer OPEN; its 'close' event comes later
Closing(s) ==
    /\ ~crashed
    /\ sockets[s].receiving
    /\ sockets[s].readyState = "OPEN"
    /\ sockets' = [sockets EXCEPT ![s] =
           [@ EXCEPT !.readyState = "CLOSING", !.receiving = FALSE]]
    /\ sent' = Quiet(sockets)
    /\ UNCHANGED <<nextClientId, clients, crashed>>

\* clients.forEach(remainingClient => ...) of the close handler, from entry i on
RECURSIVE NotifyDisconnected(_, _, _, _, _, _)
NotifyDisconnected(map, socks, snt, clientId, username, i) ==
    IF i > Len(map) THEN snt
    ELSE LET remainingClient == map[i]
             after == IF socks[remainingClient.ws].readyState = "OPEN"
                      THEN Send(snt, remainingClient.ws,
                                PeerDisconnectedEnvelope(clientId, username))
                      ELSE snt
         IN  NotifyDisconnected(map, socks, after, clientId, username, i + 1)

\* (faulty variant: without the `if (client)` guard, as in the relay's earlier
\* version at lines 152-165, every close deletes and notifies)
CloseHandlerUnguarded(map, socks, clientId) ==
    LET remaining == MapDelete(map, clientId)
        username == IF MapHas(map, clientId)
                    THEN MapGet(map, clientId).username ELSE Undefined
    IN  [clients |-> remaining,
         sent |-> NotifyDisconnected(remaining, socks, Quiet(socks),
                                     clientId, username, 1)]

\* The body of the close handler: what it leaves in the Map and what it sends.
CloseHandler(map, socks, clientId) ==
    IF MapHas(map, clientId)
    THEN LET client == MapGet(map, clientId)
             remaining == MapDelete(map, clientId)
         IN  [clients |-> remaining,
              sent |-> NotifyDisconnected(remaining, socks, Quiet(socks),
                                          clientId, client.username, 1)]
    ELSE [clients |-> map, sent |-> Quiet(socks)]

\* The 'close' event, emitted once per transport.  Nothing is emitted on the
\* transport afterwards, so its listeners and their closure are dropped.
Close(s) ==
    /\ ~crashed
    /\ sockets[s].readyState # "CLOSED"
    /\ LET closed == [sockets EXCEPT ![s] =
                         [@ EXCEPT !.readyState = "CLOSED", !.receiving = FALSE,
                                   !.onceMessage = FALSE, !.onMessage = FALSE,
                                   !.username = Undefined]]
           result == CloseHandler(clients, closed, sockets[s].clientId)
       IN  /\ sockets' = closed
           /\ clients' = result.clients
           /\ sent' = result.sent
    /\ UNCHANGED <<nextClientId, crashed>>

\* The relay alone, fed any frames: no page runs.
Next ==
    \/ Connection /\ UNCHANGED <<browsers, wire>>
    \/ \E s \in DOMAIN sockets, message \in Frames :
            OnceMessage(s, message) /\ UNCHANGED <<browsers, wire>>
    \/ \E s \in DOMAIN sockets, message \in Frames :
            OnMessage(s, message) /\ UNCHANGED <<browsers, wire>>
    \/ \E s \in DOMAIN sockets : NoListener(s) /\ UNCHANGED <<browsers, wire>>
    \/ \E s \in DOMAIN sockets : Closing(s) /\ UNCHANGED <<browsers, wire>>
    \/ \E s \in DOMAIN sockets : Close(s) /\ UNCHANGED <<browsers, wire>>

Spec == Init /\ [][Next]_vars

\* ======================================================================
\* Properties of the relay.  A step of the relay is one callback; a formula
\* of the form [][A]_vars below says what every such step does.
\* ======================================================================
Sockets == DOMAIN sockets

\* the transport of p is registered / registered and open, in the state before a step
IsRegistered(p) == sockets[p].clientId \in MapKeys(clients)
IsRegisteredOpen(p) == IsRegistered(p) /\ sockets[p].readyState = "OPEN"

\* the step changes the record of transport q.  The handler of a first frame
\* and the close handler always do (OnceMessage removes the one-shot
\* listener, Close sets readyState), so a claim about those steps tests this
\* before it evaluates the handler.
Touched(q) == sockets'[q] # sockets[q]

\* the forwarding handler handles a frame that parses to an object
ForwardStep(s, message) == message.json = "object" /\ OnMessage(s, message)

\* the one-shot handler handles a register frame / any other first frame
RegisterStep(q, message) == IsRegisterFrame(message) /\ OnceMessage(q, message)
RefusedStep(q, message) == ~IsRegisterFrame(message) /\ OnceMessage(q, message)

\* this frame arrives on transport s
FrameStep(s, message) ==
    NoListener(s) \/ OnceMessage(s, message) \/ OnMessage(s, message)

\* a frame, whichever, arrives on transport s
AnyFrameStep(s) ==
    \/ NoListener(s)
    \/ \E message \in Frames : OnceMessage(s, message) \/ OnMessage(s, message)

\* the step sends transport t exactly one envelope, of this type
SendsOne(t, type) == Len(sent'[t]) = 1 /\ sent'[t][1].type = type

\* ---------------------------------------------------------------- C1
\* the target of a targeted envelope gets it exactly once when it is
\* registered and open, nobody else gets anything
TargetedDelivery(s, message) ==
    \A t \in Sockets :
        IF sockets[t].clientId = message.targetPeerId /\ IsRegisteredOpen(t)
        THEN /\ SendsOne(t, message.type)
             /\ sent'[t][1].targetPeerId = message.targetPeerId
        ELSE sent'[t] = <<>>

\* C1, as stated: a targeted envelope from a registered peer S is delivered
\* exactly once to T if T is registered and open, else to nobody; no other
\* peer receives it and nothing (no error, no envelope) goes back to S.
C1_NothingBackToSender ==
    [][\A s \in Sockets, message \in Frames :
        message.targetPeerId # NoId /\ ForwardStep(s, message)
        => /\ TargetedDelivery(s, message)
           /\ sent'[s] = <<>>
           /\ ~crashed']_vars

\* C1, amended: as C1, but nothing goes back to S unless S named itself as
\* the target (T = S), in which case S, being registered and open, receives
\* its own stamped envelope once.
C1_TargetedDelivery ==
    [][\A s \in Sockets, message \in Frames :
        message.targetPeerId # NoId /\ ForwardStep(s, message)
        => /\ TargetedDelivery(s, message)
           /\ (message.targetPeerId # sockets[s].clientId => sent'[s] = <<>>)
           /\ ~crashed']_vars

\* C1 witness: three registered open peers, peer 1 has just been sent an
\* offer stamped with another peer's id, the other two were sent nothing.
C1_Witness ==
    /\ Len(clients) = 3
    /\ \A p \in Sockets : IsRegisteredOpen(p)
    /\ \E t \in Sockets :
        /\ Len(sent[t]) = 1
        /\ sent[t][1].type = "offer"
        /\ sent[t][1].targetPeerId = sockets[t].clientId
        /\ sent[t][1].senderId # sockets[t].clientId
        /\ \A p \in Sockets \ {t} : sent[p] = <<>>

\* ---------------------------------------------------------------- C2
\* C2: an envelope without targetPeerId from a registered peer S is sent
\* exactly once to every other registered peer and not to S.
C2_Broadcast ==
    [][\A s \in Sockets, message \in Frames :
        message.targetPeerId = NoId /\ ForwardStep(s, message)
        => \A t \in Sockets :
            IF t # s /\ IsRegistered(t)
            THEN SendsOne(t, message.type)
            ELSE sent'[t] = <<>>]_vars

\* ---------------------------------------------------------------- C3
\* the username under which transport q is registered, before a step
RegisteredUsername(q) == MapGet(clients, sockets[q].clientId).username

\* no transport is sent a new-peer or peer-disconnected envelope about itself
NoNoticeAboutSelf ==
    \A p \in Sockets : \A i \in 1..Len(sent[p]) :
        sent[p][i].type \in {"new-peer", "peer-disconnected"}
        => sent[p][i].peerId # sockets[p].clientId

\* the notices the step sends every transport other than q
NoticeToOthers(q, type, username) ==
    \A p \in Sockets \ {q} :
        IF IsRegisteredOpen(p)
        THEN /\ SendsOne(p, type)
             /\ sent'[p][1].peerId = sockets[q].clientId
             /\ sent'[p][1].username = username
        ELSE sent'[p] = <<>>

\* C3: on every registration of Q and every disconnect of a registered Q,
\* each peer P # Q that is registered and open receives exactly one
\* new-peer / peer-disconnected envelope {peerId: Q, username}; no peer ever
\* receives such an envelope about its own id.
C3_JoinLeaveNotices ==
    [][/\ \A q \in Sockets : Touched(q) =>
            \A message \in Frames :
                RegisterStep(q, message)
                => NoticeToOthers(q, "new-peer", message.username)
       /\ \A q \in Sockets :
            Touched(q) /\ IsRegistered(q) /\ Close(q)
            => /\ NoticeToOthers(q, "peer-disconnected", RegisteredUsername(q))
               /\ sent'[q] = <<>>
       /\ NoNoticeAboutSelf']_vars

\* C3 witness: a registered peer has just disconnected; an open registered
\* peer was told, a registered peer whose transport is closing was not.
C3_Witness ==
    \E q, p, r \in Sockets :
        /\ sockets[q].readyState = "CLOSED" /\ sockets[q].first = "register"
        /\ IsRegisteredOpen(p)
        /\ sent[p] = <<[type |-> "peer-disconnected",
                        peerId |-> sockets[q].clientId, username |-> "bob"]>>
        /\ IsRegistered(r) /\ sockets[r].readyState = "CLOSING"
        /\ sent[r] = <<>>

\* ---------------------------------------------------------------- C4
\* C4: the PeerIds of the transports are strictly increasing in connection
\* order, registered peers are registered under the id of their transport,
\* and no id is ever given to two transports, closed ones included.
C4_PeerIdsIncrease ==
    /\ \A i, j \in Sockets : i < j => sockets[i].clientId < sockets[j].clientId
    /\ \A i \in Sockets : sockets[i].clientId < nextClientId
    /\ \A k \in 1..Len(clients) :
        /\ clients[k].ws \in Sockets
        /\ sockets[clients[k].ws].clientId = clients[k].clientId
    /\ \A k, l \in 1..Len(clients) :
        clients[k].clientId = clients[l].clientId => k = l

\* C4 witness: the first peer registered and has disconnected, the second
\* transport's first frame was refused, a third registered after both.
C4_Witness ==
    /\ Len(sockets) = 3
    /\ sockets[1].first = "register" /\ sockets[1].readyState = "CLOSED"
    /\ sockets[2].first = "other"
    /\ IsRegisteredOpen(3)
    /\ Len(sent[3]) = 0

\* ---------------------------------------------------------------- C5
\* transports whose first frame was a register frame, and those of them
\* whose close event has been handled
Registrations == {t \in Sockets : sockets[t].first = "register"}
Disconnects == {t \in Registrations : sockets[t].readyState = "CLOSED"}

\* C5: the registry holds exactly the peers that completed registration and
\* whose disconnect is not yet processed: N registrations and M disconnects
\* leave N - M entries; transports that never registered are not in it.
C5_RegistrySize ==
    /\ MapKeys(clients) = {sockets[t].clientId : t \in Registrations \ Disconnects}
    /\ Len(clients) = Cardinality(Registrations) - Cardinality(Disconnects)
    /\ \A k \in 1..Len(clients) : sockets[clients[k].ws].clientId = clients[k].clientId

\* C5 witness: three registrations and one disconnect leave two entries
C5_Witness ==
    /\ Cardinality(Registrations) = 3
    /\ Cardinality(Disconnects) = 1
    /\ Len(clients) = 2

\* ---------------------------------------------------------------- C6
\* the {clientId, username} of the peers registered before a step, other
\* than the peer with this id
OtherPeers(clientId) ==
    {[clientId |-> clients[k].clientId, username |-> clients[k].username] :
        k \in {l \in 1..Len(clients) : clients[l].clientId # clientId}}

\* the step sends q, first of all, one existing-peers envelope listing `others`
GreetedWith(q, others) ==
    /\ Len(sent'[q]) = 1
    /\ sent'[q][1].type = "existing-peers"
    /\ {sent'[q][1].peers[i] : i \in 1..Len(sent'[q][1].peers)} = others
    /\ Len(sent'[q][1].peers) = Cardinality(others)

\* the step sends an existing-peers envelope to transport t
SendsExistingPeers(t) ==
    \E i \in 1..Len(sent'[t]) : sent'[t][i].type = "existing-peers"

\* C6, as stated: handling a peer's register frame sends it exactly one
\* existing-peers envelope, before anything else reaches it, listing exactly
\* the other registered peers, also when there are none (peers: []).
C6_AlwaysGreeted ==
    [][\A q \in Sockets : Touched(q) =>
        \A message \in Frames :
            RegisterStep(q, message)
            => GreetedWith(q, OtherPeers(sockets[q].clientId))]_vars

\* C6, amended: a peer that registers while at least one other peer is
\* registered receives exactly one existing-peers envelope, sent while its
\* register frame is handled and before any other envelope reaches it,
\* listing exactly the other registered peers; a peer that registers while
\* no other peer is registered is sent no existing-peers envelope.  No other
\* step sends an existing-peers envelope, a transport whose register frame
\* has not been handled is sent nothing, and a transport's register frame is
\* handled at most once.
C6_GreetedWhenOthers ==
    [][/\ \A q \in Sockets : Touched(q) =>
            \A message \in Frames :
                RegisterStep(q, message)
                => /\ sockets[q].first = "none"
                   /\ sockets'[q].first = "register"
                   /\ IF OtherPeers(sockets[q].clientId) = {}
                      THEN sent'[q] = <<>>
                      ELSE GreetedWith(q, OtherPeers(sockets[q].clientId))
       /\ \A t \in Sockets :
            SendsExistingPeers(t) => \E message \in Frames : RegisterStep(t, message)
       /\ \A t \in DOMAIN sockets' :
            sockets'[t].first # "register" => sent'[t] = <<>>]_vars

\* C6 witness: the third peer to register has just been sent one
\* existing-peers envelope that lists the two peers registered before it.
C6_Witness ==
    /\ Len(clients) = 3
    /\ \E q \in Sockets :
        /\ Len(sent[q]) = 1
        /\ sent[q][1].type = "existing-peers"
        /\ Len(sent[q][1].peers) = 2
        /\ \A i \in 1..2 : sent[q][1].peers[i].clientId # sockets[q].clientId

\* ---------------------------------------------------------------- C7
\* the two frames differ at most in the senderId and username the client wrote
SameButClaim(m1, m2) ==
    /\ m1.json = m2.json
    /\ m1.type = m2.type
    /\ m1.targetPeerId = m2.targetPeerId

\* C7: every forwarded envelope carries the id the relay gave the transport
\* it arrived on and the username that transport registered with, whatever
\* the client wrote: the same step is the relay's answer to every frame that
\* differs only in the senderId and username the client wrote.
C7_StampedBySender ==
    [][\A s \in Sockets, message \in Frames :
        ForwardStep(s, message)
        => /\ \A t \in Sockets : \A i \in 1..Len(sent'[t]) :
                /\ sent'[t][i].senderId = sockets[s].clientId
                /\ sent'[t][i].username = RegisteredUsername(s)
           /\ \A other \in Frames :
                SameButClaim(message, other)
                => sent' = Forward(clients, sockets, Quiet(sockets),
                        Stamp(JSONParse(other).data, sockets[s].clientId,
                              sockets[s].username))]_vars

\* C7 witness: peer 2, registered as "bob", sent an offer for peer 1, which
\* the frames that claim senderId 1 and username "alice" are among; peer 1
\* was sent it as from 2, "bob".
C7_Witness ==
    /\ Len(sockets) >= 2
    /\ IsRegisteredOpen(1)
    /\ Len(sent[1]) = 1
    /\ sent[1][1].type = "offer"
    /\ sent[1][1].senderId = 2
    /\ sent[1][1].username = "bob"

\* ---------------------------------------------------------------- C8
\* nothing is sent to anybody by the step
SendsNothing == \A t \in DOMAIN sent' : sent'[t] = <<>>

\* a transport whose first frame was refused is not registered and has no
\* message listener left
RefusedStayOut ==
    \A t \in Sockets :
        sockets[t].first = "other"
        => /\ ~IsRegistered(t)
           /\ ~sockets[t].onceMessage
           /\ ~sockets[t].onMessage
           /\ sockets[t].readyState # "OPEN"

\* C8: when the first frame on a transport is malformed JSON or is not a
\* register frame, the relay closes the transport, leaves the registry
\* unchanged and sends nothing; no later frame of that transport registers
\* it or is forwarded.
C8_RefusedFirstFrame ==
    [][/\ \A q \in Sockets : Touched(q) =>
            \A message \in Frames :
                RefusedStep(q, message)
                => /\ sockets[q].readyState = "OPEN"
                   /\ sockets'[q].readyState = "CLOSING"
                   /\ sockets'[q].first = "other"
                   /\ clients' = clients
                   /\ SendsNothing
                   /\ ~crashed'
       /\ \A q \in Sockets :
            sockets[q].first = "other" /\ AnyFrameStep(q)
            => /\ clients' = clients
               /\ SendsNothing
               /\ ~crashed'
       /\ RefusedStayOut']_vars

\* C8 witness: the first frame of a transport was refused and the transport
\* is closing; the peer registered beside it is still the whole registry and
\* nothing was sent.
C8_Witness ==
    \E q, p \in Sockets :
        /\ sockets[q].first = "other"
        /\ sockets[q].readyState = "CLOSING"
        /\ IsRegisteredOpen(p)
        /\ Len(clients) = 1
        /\ \A t \in Sockets : sent[t] = <<>>

\* ---------------------------------------------------------------- C9
\* the registry entries of the transports other than s
OthersRegistered(map, s) == SelectSeq(map, LAMBDA e : e.ws # s)

\* C9: a frame that fails JSON parsing, also one from a peer that has
\* registered, makes the relay close that one transport only: the relay keeps
\* running and every other peer stays registered.
C9_BadFrameClosesOne ==
    [][\A s \in Sockets, message \in Frames :
        message.json = "malformed" /\ FrameStep(s, message)
        => /\ ~crashed'
           /\ sockets'[s].readyState # "OPEN"
           /\ OthersRegistered(clients', s) = OthersRegistered(clients, s)]_vars

\* ---------------------------------------------------------------- C10
\* the step sends somebody a peer-disconnected envelope about this id
AnnouncesDeparture(clientId) ==
    \E t \in DOMAIN sent' : \E i \in 1..Len(sent'[t]) :
        /\ sent'[t][i].type = "peer-disconnected"
        /\ sent'[t][i].peerId = clientId

\* C10: the close of a transport whose id is not in the registry changes
\* nothing in the registry and sends no peer-disconnected envelope; so the
\* departure of an id is announced by one step at most: the close of its
\* transport, found registered, which then is closed for good.
C10_CloseOfAbsentIsNoOp ==
    [][/\ \A s \in Sockets :
            Touched(s) /\ ~IsRegistered(s) /\ Close(s)
            => clients' = clients /\ SendsNothing
       /\ \A s \in Sockets :
            AnnouncesDeparture(sockets[s].clientId)
            => /\ IsRegistered(s)
               /\ sockets[s].readyState # "CLOSED"
               /\ sockets'[s].readyState = "CLOSED"
               /\ ~(sockets'[s].clientId \in MapKeys(clients'))
       /\ \A s \in Sockets :
            sockets[s].readyState = "CLOSED" => sockets'[s].readyState = "CLOSED"]_vars

\* C10 witness: a transport that never registered is closed, beside two
\* registered open peers that were sent nothing and are still registered.
C10_Witness ==
    \E s \in Sockets :
        /\ sockets[s].readyState = "CLOSED"
        /\ sockets[s].first # "register"
        /\ Len(clients) = 2
        /\ \A p \in Sockets \ {s} : IsRegisteredOpen(p) /\ sent[p] = <<>>
        /\ sent[s] = <<>>

\* ======================================================================
\* The browser client (src/client.js).  browsers[b] is one page that ran
\* initP2PChat: its `state` object (peerConnections, dataChannels,
\* peerUsernames, myPeerId), the RTCPeerConnection objects it created, its
\* async callbacks suspended at an await, and what the callback that ran
\* last did.  The page is single-threaded: a callback runs until it returns
\* or reaches an await on the transport library; an await on a promise that
\* is already settled (createPeerConnection called with initiator false)
\* resumes in a microtask, before any other event is dispatched, and does not
\* end the step.
\*
\* An RTCPeerConnection is a record:
\*   peerId             `peerId` in the closure of its handlers
\*   signalingState     "stable", "have-local-offer", "have-remote-offer" or
\*                      "closed", as RTCPeerConnection.signalingState
\*   localDescription   a local description has been set
\*   remoteDescription  a remote description has been set
\*   ondatachannel      the ondatachannel handler is installed
\*   channel            its data channel: "none", "connecting", "open",
\*                      "closing" (not open any more, close event not yet
\*                      dispatched) or "closed" (close event dispatched)
\* What addIceCandidate adds to a connection that accepts the candidate is
\* inside the library and is not kept.
\* ======================================================================
PeerIds == 1..MaxConnections

NoHandle == 0                  \* Map.get() of an absent key: undefined

NullCandidate == 0             \* event.candidate === null, or no candidate in a frame

Candidates == {1}

\* data[name], or `absent` when the JSON object has no such property
Get(data, name, absent) == IF name \in DOMAIN data THEN data[name] ELSE absent

NewRTCPeerConnection(peerId) ==
    [peerId |-> peerId, signalingState |-> "stable",
     localDescription |-> FALSE, remoteDescription |-> FALSE,
     ondatachannel |-> FALSE, channel |-> "none"]

\* The page after initP2PChat(config) returned: the WebSocket is connecting.
\* referenced, departed, assigned and told are history: the peers whose
\* username the page has set, the peers whose peer-disconnected it has
\* handled, and (where the relay is not run) the id the relay gave the page
\* and the peers the relay has told it of.
InitP2PChat(username, assigned) ==
    [username |-> username,
     ws |-> "CONNECTING",
     peerConnections |-> [p \in PeerIds |-> NoHandle],
     dataChannels |-> [p \in PeerIds |-> NoHandle],
     peerUsernames |-> [p \in PeerIds |-> Undefined],
     myPeerId |-> NoId,
     rtc |-> <<>>,
     suspended |-> <<>>,
     wsSent |-> <<>>, logged |-> <<>>, written |-> <<>>,
     rejected |-> FALSE,
     referenced |-> {}, departed |-> {},
     assigned |-> assigned, told |-> {}]

\* nothing done yet: the effects of a callback when it starts
Calm(br) ==
    [br EXCEPT !.wsSent = <<>>, !.logged = <<>>, !.written = <<>>,
               !.rejected = FALSE]

\* log(level, message): state.config.loggingCallback(level, message)
Log(br, level, message) ==
    [br EXCEPT !.logged = Append(@, [level |-> level, message |-> message])]

\* ws.send(JSON.stringify(frame))
WsSend(br, frame) == [br EXCEPT !.wsSent = Append(@, frame)]

\* the callback reaches an await on the transport library
Suspend(br, fn, await, peerId, pc, rest, candidate) ==
    [br EXCEPT !.suspended = Append(@,
        [fn |-> fn, await |-> await, peerId |-> peerId, pc |-> pc,
         rest |-> rest, candidate |-> candidate])]

\* ------------------------------------------------------ setupDataChannel
\* state.dataChannels.set(peerId, channel); the channel is the one of
\* connection h, and its handlers close over peerId
SetupDataChannel(br, h, peerId) == [br EXCEPT !.dataChannels[peerId] = h]

\* --------------------------------------------------- createPeerConnection
\* (faulty variant: the initiator flag is ignored, every connection is made
\* as by a responder)
CreatePeerConnectionResponder(br, peerId, initiator) ==
    [br EXCEPT !.rtc = Append(@, [NewRTCPeerConnection(peerId) EXCEPT
                                      !.ondatachannel = TRUE]),
               !.peerConnections[peerId] = Len(br.rtc) + 1]

\* createPeerConnection up to its first await: the connection is made and
\* stored, and gets a data channel (initiator) or an ondatachannel handler
CreatePeerConnection(br, peerId, initiator) ==
    LET h == Len(br.rtc) + 1
        peerConnection == NewRTCPeerConnection(peerId)
        stored == [br EXCEPT !.peerConnections[peerId] = h]
    IN  IF initiator
        THEN SetupDataChannel(
                [stored EXCEPT !.rtc = Append(@,
                    [peerConnection EXCEPT !.channel = "connecting"])],
                h, peerId)
        ELSE [stored EXCEPT !.rtc = Append(@,
                    [peerConnection EXCEPT !.ondatachannel = TRUE])]

\* state.peerUsernames.set(peerId, username)
SetUsername(br, peerId, username) ==
    [br EXCEPT !.peerUsernames[peerId] = username,
               !.referenced = @ \cup {peerId}]

\* for (const peer of data.peers) { ... await createPeerConnection(peer.clientId, true) }
\* from the peers still to visit: the loop stops at createOffer of the first
ExistingPeersLoop(br, peers) ==
    IF peers = <<>> THEN br
    ELSE LET peer == Head(peers)
             made == CreatePeerConnection(
                        SetUsername(br, peer.clientId, peer.username),
                        peer.clientId, TRUE)
         IN  Suspend(made, "createPeerConnection", "createOffer", peer.clientId,
                     made.peerConnections[peer.clientId], Tail(peers),
                     NullCandidate)

\* ------------------------------------------------------------ handleOffer
\* (faulty variant: a new connection replaces the one the peer has)
HandleOfferReplacing(br, data) ==
    LET peerId == data.senderId
        made == CreatePeerConnection(br, peerId, FALSE)
    IN  Suspend(made, "handleOffer", "setRemoteDescription(offer)", peerId,
                made.peerConnections[peerId], <<>>, NullCandidate)

\* handleOffer up to `await peerConnection.setRemoteDescription(...)`
HandleOffer(br, data) ==
    LET peerId == data.senderId
        made == IF br.peerConnections[peerId] = NoHandle
                THEN CreatePeerConnection(br, peerId, FALSE)
                ELSE br
    IN  Suspend(made, "handleOffer", "setRemoteDescription(offer)", peerId,
                made.peerConnections[peerId], <<>>, NullCandidate)

\* ----------------------------------------------------------- handleAnswer
HandleAnswer(br, data) ==
    LET senderId == Get(data, "senderId", NoId)
        peerConnection == IF senderId \in PeerIds
                          THEN br.peerConnections[senderId] ELSE NoHandle
    IN  IF peerConnection # NoHandle
        THEN Suspend(br, "handleAnswer", "setRemoteDescription(answer)",
                     senderId, peerConnection, <<>>, NullCandidate)
        ELSE br

\* ----------------------------------------------------- handleIceCandidate
HandleIceCandidate(br, data) ==
    LET senderId == Get(data, "senderId", NoId)
        peerConnection == IF senderId \in PeerIds
                          THEN br.peerConnections[senderId] ELSE NoHandle
    IN  IF peerConnection # NoHandle
        THEN Suspend(br, "handleIceCandidate", "addIceCandidate", senderId,
                     peerConnection, <<>>, Get(data, "candidate", NullCandidate))
        ELSE br

\* ------------------------------------------------- handlePeerDisconnection
\* connection.close(): the connection is closed for good and its channel, if
\* it has one that is not closed, is no longer open; the channel's close
\* event is dispatched later
RTCClose(pc) ==
    [pc EXCEPT !.signalingState = "closed",
               !.localDescription = FALSE, !.remoteDescription = FALSE,
               !.ondatachannel = FALSE,
               !.channel = IF @ \in {"connecting", "open"} THEN "closing" ELSE @]

HandlePeerDisconnection(br, peerId, username) ==
    LET connection == br.peerConnections[peerId]
        released == IF connection # NoHandle
                    THEN [br EXCEPT !.rtc[connection] = RTCClose(@),
                                    !.peerConnections[peerId] = NoHandle]
                    ELSE br
    IN  Log([released EXCEPT !.dataChannels[peerId] = NoHandle,
                             !.peerUsernames[peerId] = Undefined,
                             !.departed = @ \cup {peerId}],
            "info", <<"Peer disconnected">>)

\* ----------------------------------------------------------- ws.onmessage
\* ws.onmessage up to its first await on the transport library
WsOnMessage(br, data) ==
    LET logged == Log(Calm(br), "debug", <<"Received message">>)
        senderId == Get(data, "senderId", NoId)
        named == IF logged.myPeerId = NoId /\ senderId # NoId
                 THEN [logged EXCEPT !.myPeerId = senderId]
                 ELSE logged
    IN  CASE data.type = "existing-peers" ->
                ExistingPeersLoop(named, data.peers)
          [] data.type = "new-peer" ->
                CreatePeerConnection(
                    SetUsername(named, data.peerId, data.username),
                    data.peerId, FALSE)
          [] data.type = "offer" ->
                HandleOffer(SetUsername(named, data.senderId, data.username), data)
          [] data.type = "answer" -> HandleAnswer(named, data)
          [] data.type = "ice-candidate" -> HandleIceCandidate(named, data)
          [] data.type = "peer-disconnected" ->
                HandlePeerDisconnection(named, data.peerId, data.username)
          [] OTHER -> named

\* ---------------------------------------------- the transport library
\* The operation the library is asked for is possible in the connection's
\* state (WebRTC: a closed connection rejects every operation, an answer is
\* applied only to a connection with a local offer, a candidate only to one
\* with a remote description; a remote offer on a connection with a local
\* offer rolls the local offer back).
Acceptable(pc, await) ==
    /\ pc.signalingState # "closed"
    /\ CASE await = "createOffer" -> TRUE
         [] await = "setLocalDescription(offer)" ->
                pc.signalingState \in {"stable", "have-local-offer"}
         [] await = "setRemoteDescription(offer)" -> TRUE
         [] await = "createAnswer" -> pc.signalingState = "have-remote-offer"
         [] await = "setLocalDescription(answer)" ->
                pc.signalingState = "have-remote-offer"
         [] await = "setRemoteDescription(answer)" ->
                pc.signalingState = "have-local-offer"
         [] await = "addIceCandidate" -> pc.remoteDescription

\* the connection after the operation succeeded
Applied(pc, await) ==
    CASE await = "setLocalDescription(offer)" ->
            [pc EXCEPT !.signalingState = "have-local-offer",
                       !.localDescription = TRUE]
      [] await = "setRemoteDescription(offer)" ->
            [pc EXCEPT !.signalingState = "have-remote-offer",
                       !.remoteDescription = TRUE,
                       !.localDescription =
                            IF pc.signalingState = "have-local-offer"
                            THEN FALSE ELSE @]
      [] await = "setLocalDescription(answer)" ->
            [pc EXCEPT !.signalingState = "stable", !.localDescription = TRUE]
      [] await = "setRemoteDescription(answer)" ->
            [pc EXCEPT !.signalingState = "stable", !.remoteDescription = TRUE]
      [] OTHER -> pc

\* How the awaited promise settles: rejected because the connection's state
\* does not allow the operation, rejected for another reason (ok is FALSE:
\* the library does not like the description or candidate), or fulfilled.
Settle(pc, await, ok) ==
    IF ~Acceptable(pc, await)
    THEN [error |-> "InvalidStateError", pc |-> pc]
    ELSE IF ~ok
         THEN [error |-> "OperationError", pc |-> pc]
         ELSE [error |-> "none", pc |-> Applied(pc, await)]

\* the sequence without its i-th element
Without(seq, i) == SubSeq(seq, 1, i - 1) \o SubSeq(seq, i + 1, Len(seq))

\* ---------------------------------------------- the rest of the callbacks
OfferFrame(peerId) == [type |-> "offer", targetPeerId |-> peerId]

AnswerFrame(peerId) == [type |-> "answer", targetPeerId |-> peerId]

IceCandidateFrame(candidate, peerId) ==
    [type |-> "ice-candidate", candidate |-> candidate, targetPeerId |-> peerId]

\* (faulty variant: an error of handleAnswer or handleIceCandidate is not caught)
CaughtNever(await) == FALSE

\* the await is inside a try block (handleAnswer and handleIceCandidate)
Caught(await) == await \in {"setRemoteDescription(answer)", "addIceCandidate"}

ErrorMessage(await) ==
    IF await = "addIceCandidate"
    THEN "Error adding received ice candidate"
    ELSE "Error setting remote description"

\* The callback suspended i-th in page br runs on from its await, up to its
\* next await or its end.  An error outside a try block ends the callback
\* (and the loop it is in) as an unhandled promise rejection.
Resume(br, i, ok) ==
    LET task == br.suspended[i]
        settled == Settle(br.rtc[task.pc], task.await, ok)
        base == [Calm(br) EXCEPT !.rtc[task.pc] = settled.pc,
                                 !.suspended = Without(@, i)]
        next(await) == Suspend(base, task.fn, await, task.peerId, task.pc,
                               task.rest, task.candidate)
    IN  IF settled.error # "none"
        THEN IF Caught(task.await)
             THEN Log(base, "error", <<ErrorMessage(task.await), settled.error>>)
             ELSE [base EXCEPT !.rejected = TRUE]
        ELSE CASE task.await = "createOffer" -> next("setLocalDescription(offer)")
               [] task.await = "setLocalDescription(offer)" ->
                    ExistingPeersLoop(WsSend(base, OfferFrame(task.peerId)), task.rest)
               [] task.await = "setRemoteDescription(offer)" -> next("createAnswer")
               [] task.await = "createAnswer" -> next("setLocalDescription(answer)")
               [] task.await = "setLocalDescription(answer)" ->
                    WsSend(base, AnswerFrame(task.peerId))
               [] OTHER -> base

\* peerConnection.onicecandidate
OnIceCandidate(br, h, candidate) ==
    IF candidate # NullCandidate
    THEN WsSend(Calm(br), IceCandidateFrame(candidate, br.rtc[h].peerId))
    ELSE Calm(br)

\* peerConnection.ondatachannel: the channel the remote peer made arrives
OnDataChannel(br, h) ==
    SetupDataChannel([Calm(br) EXCEPT !.rtc[h].channel = "connecting"],
                     h, br.rtc[h].peerId)

\* channel.onopen
ChannelOnOpen(br, h) ==
    Log([Calm(br) EXCEPT !.rtc[h].channel = "open"], "info", <<"Data channel opened">>)

\* channel.onclose: state.dataChannels.delete(peerId)
ChannelOnClose(br, h) ==
    Log([Calm(br) EXCEPT !.rtc[h].channel = "closed",
                         !.dataChannels[br.rtc[h].peerId] = NoHandle],
        "info", <<"Data channel closed">>)

\* ----------------------------------------------------------- sendMessage
\* (faulty variant: the readiness of the channel is not looked at)
RECURSIVE FanOutAll(_, _)
FanOutAll(br, p) ==
    IF p > MaxConnections THEN br
    ELSE LET channel == br.dataChannels[p]
         IN  FanOutAll(IF channel # NoHandle
                       THEN [br EXCEPT !.written = Append(@, channel)]
                       ELSE br, p + 1)

\* state.dataChannels.forEach(channel => ...), from the entry of peer p on
RECURSIVE FanOut(_, _)
FanOut(br, p) ==
    IF p > MaxConnections THEN br
    ELSE LET channel == br.dataChannels[p]
         IN  FanOut(IF channel # NoHandle /\ br.rtc[channel].channel = "open"
                    THEN [br EXCEPT !.written = Append(@, channel)]
                    ELSE br, p + 1)

\* sendMessage: message is inputElement.value.trim(); what appendMessage
\* puts in the page is not kept
SendMessage(br, message) ==
    IF message # "" THEN FanOut(Calm(br), 1) ELSE Calm(br)

\* ------------------------------------------------------ events of a page
\* what fits the bounds of the model
Fits(br) == Len(br.rtc) <= MaxHandles /\ Len(br.suspended) <= MaxPending

\* the page is replaced by what the callback made of it
Becomes(b, br) == browsers' = [browsers EXCEPT ![b] = br]

\* the peers an envelope of the relay tells the page of
Introduced(data) ==
    CASE data.type = "existing-peers" ->
            {data.peers[i].clientId : i \in 1..Len(data.peers)}
      [] data.type = "new-peer" -> {data.peerId}
      [] OTHER -> {}

\* ws.onopen: the page registers
WsOpen(b) ==
    LET br == browsers[b] IN
    /\ br.ws = "CONNECTING"
    /\ Becomes(b, WsSend([Calm(br) EXCEPT !.ws = "OPEN"],
                         [type |-> "register", username |-> br.username]))

\* a 'message' event of the WebSocket: ws.onmessage runs to its first await
WsMessage(b, data) ==
    LET br == browsers[b]
        result == [WsOnMessage(br, data) EXCEPT !.told = @ \cup Introduced(data)]
    IN  /\ br.ws = "OPEN"
        /\ Fits(result)
        /\ Becomes(b, result)

\* The library settles the promise a callback awaits.  The operations of one
\* connection are chained: they settle in the order they were asked for.
Settled(b, i, ok) ==
    LET br == browsers[b] IN
    /\ br.ws = "OPEN"
    /\ i \in DOMAIN br.suspended
    /\ \A j \in 1..(i - 1) : br.suspended[j].pc # br.suspended[i].pc
    /\ Fits(Resume(br, i, ok))
    /\ Becomes(b, Resume(br, i, ok))

\* the connection has both descriptions and is open for data
Connected(pc) ==
    /\ pc.signalingState = "stable"
    /\ pc.localDescription
    /\ pc.remoteDescription

\* an 'icecandidate' event: the library gathers after a local description
IceCandidate(b, h, candidate) ==
    LET br == browsers[b] IN
    /\ br.ws = "OPEN"
    /\ h \in DOMAIN br.rtc
    /\ br.rtc[h].signalingState # "closed"
    /\ br.rtc[h].localDescription
    /\ Becomes(b, OnIceCandidate(br, h, candidate))

\* a 'datachannel' event: the channel of the remote peer arrives
DataChannel(b, h) ==
    LET br == browsers[b] IN
    /\ br.ws = "OPEN"
    /\ h \in DOMAIN br.rtc
    /\ br.rtc[h].ondatachannel
    /\ br.rtc[h].channel = "none"
    /\ Connected(br.rtc[h])
    /\ Becomes(b, OnDataChannel(br, h))

\* an 'open' event of a data channel
ChannelOpen(b, h) ==
    LET br == browsers[b] IN
    /\ br.ws = "OPEN"
    /\ h \in DOMAIN br.rtc
    /\ br.rtc[h].channel = "connecting"
    /\ Connected(br.rtc[h])
    /\ Becomes(b, ChannelOnOpen(br, h))

\* a 'close' event of a data channel: the remote peer closed it, or the
\* connection was closed
ChannelClose(b, h) ==
    LET br == browsers[b] IN
    /\ br.ws = "OPEN"
    /\ h \in DOMAIN br.rtc
    /\ br.rtc[h].channel \in {"connecting", "open", "closing"}
    /\ Becomes(b, ChannelOnClose(br, h))

\* a click on the button, or Enter in the input
Submit(b, message) ==
    /\ Becomes(b, SendMessage(browsers[b], message))

\* ------------------------------------------- one page, the relay not run
\* The envelopes the relay may send a page next: existing-peers before
\* anything else, listing peers with lower ids in the order of their ids; a
\* new-peer for an id above every id it has told of; what a peer sends
\* through it, and that peer's departure, between new-peer or existing-peers
\* and peer-disconnected for that peer.
PeerName(p) == IF p % 2 = 1 THEN "alice" ELSE "bob"

RECURSIVE PeerList(_)
PeerList(S) ==
    IF S = {} THEN <<>>
    ELSE LET p == CHOOSE q \in S : \A r \in S : q <= r
         IN  <<[clientId |-> p, username |-> PeerName(p)]>> \o PeerList(S \ {p})

Forwarded(type, p, me, candidate) ==
    [type |-> type, username |-> PeerName(p), senderId |-> p,
     targetPeerId |-> me, candidate |-> candidate]

Said(br) ==
    LET me == br.assigned
        present == br.told \ br.departed
    IN  {ExistingPeersEnvelope(PeerList(S)) :
            S \in {T \in SUBSET (1..(me - 1)) : T # {} /\ br.told = {}}}
        \cup {NewPeerEnvelope(p, PeerName(p)) :
                p \in {q \in PeerIds : q > me /\ \A t \in br.told : q > t}}
        \cup {Forwarded(type, p, me, NullCandidate) :
                type \in {"offer", "answer"}, p \in present}
        \cup {Forwarded("ice-candidate", p, me, c) : p \in present, c \in Candidates}
        \cup {PeerDisconnectedEnvelope(p, PeerName(p)) : p \in present}

Messages == {"", "hello"}

\* One page, registered second or later (the first peer to register is told
\* of new peers only, as the second is of the third).

ClientInit ==
    /\ nextClientId = 1
    /\ clients = <<>>
    /\ sockets = <<>>
    /\ sent = <<>>
    /\ crashed = FALSE
    /\ browsers \in {<<InitP2PChat("alice", me)>> : me \in PeerIds \ {1}}
    /\ wire = NoWire

ClientNext ==
    \/ \E b \in DOMAIN browsers : WsOpen(b) /\ UNCHANGED <<vars, wire>>
    \/ \E b \in DOMAIN browsers : \E data \in Said(browsers[b]) :
            WsMessage(b, data) /\ UNCHANGED <<vars, wire>>
    \/ \E b \in DOMAIN browsers : \E i \in 1..MaxPending, ok \in BOOLEAN :
            Settled(b, i, ok) /\ UNCHANGED <<vars, wire>>
    \/ \E b \in DOMAIN browsers : \E h \in 1..MaxHandles,
                                    candidate \in Candidates \cup {NullCandidate} :
            IceCandidate(b, h, candidate) /\ UNCHANGED <<vars, wire>>
    \/ \E b \in DOMAIN browsers : \E h \in 1..MaxHandles :
            DataChannel(b, h) /\ UNCHANGED <<vars, wire>>
    \/ \E b \in DOMAIN browsers : \E h \in 1..MaxHandles :
            ChannelOpen(b, h) /\ UNCHANGED <<vars, wire>>
    \/ \E b \in DOMAIN browsers : \E h \in 1..MaxHandles :
            ChannelClose(b, h) /\ UNCHANGED <<vars, wire>>
    \/ \E b \in DOMAIN browsers : \E message \in Messages :
            Submit(b, message) /\ UNCHANGED <<vars, wire>>

ClientSpec == ClientInit /\ [][ClientNext]_<<vars, browsers, wire>>

\* ======================================================================
\* Properties of the client.  A step of a page is one callback, from its
\* start or from an await to its next await or its end.
\* ======================================================================
Pages == DOMAIN browsers

\* the page has a session entry for peer p: a connection handle in its catalog
HasSession(b, p) == browsers[b].peerConnections[p] # NoHandle

\* ---------------------------------------------------------------- C11
\* C11: whatever the interleaving of the callbacks, a page has a session
\* entry for peer P if and only if it has handled an existing-peers entry, a
\* new-peer or an offer that names P and has not handled peer-disconnected
\* for P; no entry for P exists once peer-disconnected for P is handled.
C11_SessionIffPresent ==
    \A b \in Pages : \A p \in PeerIds :
        HasSession(b, p)
        <=> (p \in browsers[b].referenced /\ ~(p \in browsers[b].departed))

\* ---------------------------------------------------------------- C12
\* The negotiation stage of the session of page br for peer p, read off the
\* connection handle and the channel mapping: "None" before the session
\* exists, "Closed" when peer-disconnected was handled and no entry is left.
Stage(br, p) ==
    LET h == br.peerConnections[p]
        channel == br.dataChannels[p]
    IN  IF h = NoHandle
        THEN IF p \in br.departed THEN "Closed" ELSE "None"
        ELSE IF channel # NoHandle /\ br.rtc[channel].channel = "open"
             THEN "ChannelOpen"
             ELSE CASE br.rtc[h].signalingState = "have-local-offer" -> "OfferSent"
                    [] br.rtc[h].signalingState = "have-remote-offer" -> "OfferReceived"
                    [] br.rtc[h].signalingState = "closed" -> "Closed"
                    [] OTHER -> IF br.rtc[h].remoteDescription
                                THEN "AnswerExchanged" ELSE "Idle"

\* one step along Idle -> (OfferSent | OfferReceived) -> AnswerExchanged ->
\* ChannelOpen -> Closed, where a session is made Idle and may be Closed
\* from every stage
StageAdvance(from, to) ==
    \/ to = from
    \/ from # "Closed" /\ to = "Closed"
    \/ from = "None" /\ to = "Idle"
    \/ from = "Idle" /\ to \in {"OfferSent", "OfferReceived"}
    \/ from \in {"OfferSent", "OfferReceived"} /\ to = "AnswerExchanged"
    \/ from = "AnswerExchanged" /\ to = "ChannelOpen"

\* C12: the stage of every session only changes along Idle -> (OfferSent |
\* OfferReceived) -> AnswerExchanged -> ChannelOpen -> Closed: no step skips
\* a stage or goes backwards, and once the session for P is Closed no later
\* event causes any further transition.
C12_StagesAdvance ==
    [][\A b \in Pages : \A p \in PeerIds :
        StageAdvance(Stage(browsers[b], p), Stage(browsers'[b], p))]_browsers

\* ---------------------------------------------------------------- C13
\* the step changes page b
Stirred(b) == browsers'[b] # browsers[b]

\* the step makes a connection handle for peer p in page b, as an initiator
\* does: with a local data channel, and suspended at createOffer
InitiatedFor(b, p) ==
    LET h == Len(browsers[b].rtc) + 1
        after == browsers'[b]
    IN  /\ Len(after.rtc) = h
        /\ after.peerConnections[p] = h
        /\ after.rtc[h].channel = "connecting"
        /\ after.dataChannels[p] = h
        /\ \E i \in DOMAIN after.suspended :
                /\ after.suspended[i].fn = "createPeerConnection"
                /\ after.suspended[i].await = "createOffer"
                /\ after.suspended[i].peerId = p
                /\ after.suspended[i].pc = h

\* the step makes a connection handle for peer p in page b, as a responder
\* does: with a handler for a remote data channel, no channel, no offer
AwaitedFrom(b, p) ==
    LET h == Len(browsers[b].rtc) + 1
        after == browsers'[b]
    IN  /\ Len(after.rtc) = h
        /\ after.peerConnections[p] = h
        /\ after.rtc[h].ondatachannel
        /\ after.rtc[h].channel = "none"
        /\ after.dataChannels = browsers[b].dataChannels
        /\ after.suspended = browsers[b].suspended
        /\ after.wsSent = <<>>

\* the step is the one in which createPeerConnection of page b goes on from
\* the await of its i-th suspended callback
InitiatorSettled(b, i, ok) ==
    /\ i \in DOMAIN browsers[b].suspended
    /\ browsers[b].suspended[i].fn = "createPeerConnection"
    /\ Settled(b, i, ok)

\* what createPeerConnection(peerId, true) does after createOffer
OfferProduced(b, i) ==
    LET task == browsers[b].suspended[i]
        after == browsers'[b]
        others == Without(browsers[b].suspended, i)
    IN  \/ after.rejected /\ after.wsSent = <<>> /\ after.suspended = others
        \/ /\ task.await = "createOffer"
           /\ ~after.rejected
           /\ after.wsSent = <<>>
           /\ after.suspended =
                Append(others, [task EXCEPT !.await = "setLocalDescription(offer)"])
        \/ /\ task.await = "setLocalDescription(offer)"
           /\ ~after.rejected
           /\ after.rtc[task.pc].signalingState = "have-local-offer"
           /\ after.wsSent = <<[type |-> "offer", targetPeerId |-> task.peerId]>>
           /\ IF task.rest = <<>> THEN after.suspended = others
              ELSE InitiatedFor(b, Head(task.rest).clientId)

\* the step sends an offer envelope on the WebSocket of page b
SendsOffer(b) ==
    \E k \in 1..Len(browsers'[b].wsSent) : browsers'[b].wsSent[k].type = "offer"

OfferTaken(b, data) ==
    LET before == browsers[b]
        after == browsers'[b]
        S == data.senderId
        h == after.peerConnections[S]
    IN  /\ IF before.peerConnections[S] = NoHandle
           THEN /\ h = Len(before.rtc) + 1
                /\ after.rtc = Append(before.rtc,
                        [NewRTCPeerConnection(S) EXCEPT !.ondatachannel = TRUE])
           ELSE /\ h = before.peerConnections[S]
                /\ after.rtc = before.rtc
        /\ \A p \in PeerIds \ {S} :
                after.peerConnections[p] = before.peerConnections[p]
        /\ after.dataChannels = before.dataChannels
        /\ after.wsSent = <<>>
        /\ after.suspended = Append(before.suspended,
                [fn |-> "handleOffer", await |-> "setRemoteDescription(offer)",
                 peerId |-> S, pc |-> h, rest |-> <<>>,
                 candidate |-> NullCandidate])

\* the step is the one in which handleOffer of page b goes on from the await
\* of its i-th suspended callback
ResponderSettled(b, i, ok) ==
    /\ i \in DOMAIN browsers[b].suspended
    /\ browsers[b].suspended[i].fn = "handleOffer"
    /\ Settled(b, i, ok)

\* what handleOffer does after an await
AnswerProduced(b, i) ==
    LET task == browsers[b].suspended[i]
        after == browsers'[b]
        others == Without(browsers[b].suspended, i)
        goesOn(await) ==
            after.suspended = Append(others, [task EXCEPT !.await = await])
    IN  \/ after.rejected /\ after.wsSent = <<>> /\ after.suspended = others
        \/ /\ ~after.rejected
           /\ task.await = "setRemoteDescription(offer)"
           /\ after.rtc[task.pc].remoteDescription
           /\ after.rtc[task.pc].signalingState = "have-remote-offer"
           /\ after.wsSent = <<>>
           /\ goesOn("createAnswer")
        \/ /\ ~after.rejected
           /\ task.await = "createAnswer"
           /\ after.wsSent = <<>>
           /\ goesOn("setLocalDescription(answer)")
        \/ /\ ~after.rejected
           /\ task.await = "setLocalDescription(answer)"
           /\ browsers[b].rtc[task.pc].remoteDescription
           /\ after.wsSent = <<[type |-> "answer", targetPeerId |-> task.peerId]>>
           /\ after.suspended = others

\* the step sends an answer envelope on the WebSocket of page b
SendsAnswer(b) ==
    \E k \in 1..Len(browsers'[b].wsSent) : browsers'[b].wsSent[k].type = "answer"

\* C14: a page that handles an offer envelope of sender S makes a
\* connection for S with a handler for the remote data channel when it has
\* none, and keeps the one it has otherwise; it applies the offer to that
\* connection, asks for an answer, sets it and, when no step raised an
\* error, sends one answer envelope with targetPeerId = S, the remote offer
\* being applied to the connection by then.  Nothing else sends an answer.
C14_OneAnswerPerOffer ==
    [][\A b \in Pages : Stirred(b) =>
        /\ \A data \in Said(browsers[b]) :
            data.type = "offer" /\ WsMessage(b, data) => OfferTaken(b, data)
        /\ \A i \in 1..MaxPending, ok \in BOOLEAN :
            ResponderSettled(b, i, ok) => AnswerProduced(b, i)
        /\ SendsAnswer(b)
           => \E i \in 1..MaxPending :
                /\ ResponderSettled(b, i, TRUE)
                /\ browsers[b].suspended[i].await = "setLocalDescription(answer)"]_browsers

\* C14 witness: the page has just sent its answer to peer 3, on the
\* connection it made when new-peer told of peer 3 and that the offer of
\* peer 3 found in place.
C14_Witness ==
    \E b \in Pages :
        LET br == browsers[b] IN
        /\ br.wsSent = <<[type |-> "answer", targetPeerId |-> 3]>>
        /\ 3 \in br.told
        /\ Len(br.rtc) = 1
        /\ br.peerConnections[3] = 1
        /\ br.rtc[1].ondatachannel
        /\ br.rtc[1].remoteDescription
        /\ br.rtc[1].localDescription
        /\ br.rtc[1].signalingState = "stable"

\* ---------------------------------------------------------------- C15
\* the i-th suspended callback of page b is handleIceCandidate, awaiting
\* addIceCandidate on the connection the page holds for the peer: the
\* session is live
CandidateForLiveSession(b, i) ==
    LET br == browsers[b] IN
    /\ i \in DOMAIN br.suspended
    /\ br.suspended[i].await = "addIceCandidate"
    /\ br.peerConnections[br.suspended[i].peerId] = br.suspended[i].pc
    /\ br.rtc[br.suspended[i].pc].signalingState # "closed"

\* C15: no candidate handled for a live session is lost: one that comes
\* before the remote description of the peer is applied is kept and applied
\* later.  The page keeps no candidate (it has no queue): a candidate is
\* applied when addIceCandidate is fulfilled and lost when it is rejected,
\* so no addIceCandidate for a live session, of a candidate the library
\* finds well-formed, may be rejected.
C15_NoCandidateLost ==
    [][\A b \in Pages : Stirred(b) =>
        \A i \in 1..MaxPending :
            CandidateForLiveSession(b, i) /\ Settled(b, i, TRUE)
            => browsers'[b].logged = <<>>]_browsers

\* ---------------------------------------------------------------- C16
\* nothing of peer p is left in page br, and connection h is closed
Released(br, p, h) ==
    /\ br.peerConnections[p] = NoHandle
    /\ br.dataChannels[p] = NoHandle
    /\ br.peerUsernames[p] = Undefined
    /\ h # NoHandle => br.rtc[h].signalingState = "closed"

\* the step leaves the entries of every peer but p as they are
OthersKept(b, p) ==
    \A q \in PeerIds \ {p} :
        /\ browsers'[b].peerConnections[q] = browsers[b].peerConnections[q]
        /\ browsers'[b].dataChannels[q] = browsers[b].dataChannels[q]
        /\ browsers'[b].peerUsernames[q] = browsers[b].peerUsernames[q]

\* C16: when the data channel of the session for peer P closes, or a
\* peer-disconnected envelope for P is handled, the page closes the
\* connection of P and removes its connection, channel and username
\* entries; the entries of the other peers stay as they are.
C16_CloseReleasesSession ==
    [][\A b \in Pages : Stirred(b) =>
        /\ \A h \in 1..MaxHandles :
            /\ h \in DOMAIN browsers[b].rtc
            /\ browsers[b].dataChannels[browsers[b].rtc[h].peerId] = h
            /\ ChannelClose(b, h)
            => /\ Released(browsers'[b], browsers[b].rtc[h].peerId, h)
               /\ OthersKept(b, browsers[b].rtc[h].peerId)
        /\ \A data \in Said(browsers[b]) :
            data.type = "peer-disconnected" /\ WsMessage(b, data)
            => /\ Released(browsers'[b], data.peerId,
                           browsers[b].peerConnections[data.peerId])
               /\ OthersKept(b, data.peerId)]_browsers

\* ---------------------------------------------------------------- C17
\* how often handle h is in the sequence of writes
RECURSIVE Writes(_, _)
Writes(written, h) ==
    IF written = <<>> THEN 0
    ELSE (IF Head(written) = h THEN 1 ELSE 0) + Writes(Tail(written), h)

\* the channel of connection h is in the channel mapping of page br and open
OpenInMapping(br, h) ==
    /\ \E p \in PeerIds : br.dataChannels[p] = h
    /\ br.rtc[h].channel = "open"

\* C17: a chat send writes the payload once to every channel of the channel
\* mapping that is open at that time and to no other; it sends nothing on
\* the WebSocket and keeps nothing for later: it leaves the mappings, the
\* connections and the suspended callbacks as they are, and no step but a
\* chat send writes to a channel (so not the step in which a channel opens).
C17_FanOutToOpenChannels ==
    [][\A b \in Pages : Stirred(b) =>
        /\ \A message \in Messages :
            Submit(b, message)
            => /\ \A h \in DOMAIN browsers[b].rtc :
                    Writes(browsers'[b].written, h)
                    = IF message # "" /\ OpenInMapping(browsers[b], h)
                      THEN 1 ELSE 0
               /\ browsers'[b].wsSent = <<>>
               /\ browsers'[b].suspended = browsers[b].suspended
               /\ browsers'[b].rtc = browsers[b].rtc
               /\ browsers'[b].dataChannels = browsers[b].dataChannels
               /\ browsers'[b].peerConnections = browsers[b].peerConnections
        /\ browsers'[b].written # <<>>
           => \E message \in Messages : Submit(b, message)]_browsers

\* C17 witness: a chat send has just written to the open channel of one
\* peer and to nothing else, the channel of another peer being in the
\* mapping but still connecting.
C17_Witness ==
    \E b \in Pages : \E p, q \in PeerIds :
        LET br == browsers[b] IN
        /\ p # q
        /\ br.dataChannels[p] # NoHandle
        /\ br.rtc[br.dataChannels[p]].channel = "open"
        /\ br.dataChannels[q] # NoHandle
        /\ br.rtc[br.dataChannels[q]].channel = "connecting"
        /\ br.written = <<br.dataChannels[p]>>
        /\ br.wsSent = <<>>

\* ---------------------------------------------------------------- C18
\* the step is the one in which handleAnswer of page b goes on from the
\* await of its i-th suspended callback
AnswerSettled(b, i, ok) ==
    /\ i \in DOMAIN browsers[b].suspended
    /\ browsers[b].suspended[i].fn = "handleAnswer"
    /\ Settled(b, i, ok)

\* the step leaves the connections and the mappings of page b as they are
SessionsKept(b) ==
    /\ browsers'[b].rtc = browsers[b].rtc
    /\ browsers'[b].peerConnections = browsers[b].peerConnections
    /\ browsers'[b].dataChannels = browsers[b].dataChannels
    /\ browsers'[b].peerUsernames = browsers[b].peerUsernames

\* the step logs one error of setRemoteDescription and does no more
RemoteDescriptionErrorLogged(b) ==
    /\ Len(browsers'[b].logged) = 1
    /\ browsers'[b].logged[1].level = "error"
    /\ browsers'[b].logged[1].message[1] = "Error setting remote description"
    /\ ~browsers'[b].rejected
    /\ browsers'[b].wsSent = <<>>

\* C18, as stated: an answer envelope of peer P is applied only when the
\* session for P is in stage OfferSent; in any other stage, or without a
\* session, setRemoteDescription is not invoked and nothing changes.
C18_AnswerIgnoredOutsideOfferSent ==
    [][\A b \in Pages : Stirred(b) =>
        \A data \in Said(browsers[b]) :
            /\ data.type = "answer"
            /\ Stage(browsers[b], data.senderId) # "OfferSent"
            /\ WsMessage(b, data)
            => /\ browsers'[b].suspended = browsers[b].suspended
               /\ SessionsKept(b)]_browsers

\* C18, amended: an answer envelope of peer P changes the connection of P
\* only when that connection has a local offer and no answer yet (stage
\* OfferSent).  Without a connection for P the envelope is ignored and
\* setRemoteDescription is not invoked.  With a connection in any other
\* stage setRemoteDescription is invoked all the same: the library rejects
\* it, the error is caught and logged at level error, and the connections
\* and mappings stay as they are.
C18_AnswerAppliedOnlyInOfferSent ==
    [][\A b \in Pages : Stirred(b) =>
        /\ \A data \in Said(browsers[b]) :
            data.type = "answer" /\ WsMessage(b, data)
            => /\ SessionsKept(b)
               /\ browsers'[b].wsSent = <<>>
               /\ IF HasSession(b, data.senderId)
                  THEN browsers'[b].suspended = Append(browsers[b].suspended,
                        [fn |-> "handleAnswer",
                         await |-> "setRemoteDescription(answer)",
                         peerId |-> data.senderId,
                         pc |-> browsers[b].peerConnections[data.senderId],
                         rest |-> <<>>, candidate |-> NullCandidate])
                  ELSE browsers'[b].suspended = browsers[b].suspended
        /\ \A i \in 1..MaxPending, ok \in BOOLEAN :
            AnswerSettled(b, i, ok)
            => LET h == browsers[b].suspended[i].pc IN
               IF browsers[b].rtc[h].signalingState = "have-local-offer" /\ ok
               THEN /\ browsers'[b].rtc = [browsers[b].rtc EXCEPT
                            ![h].signalingState = "stable",
                            ![h].remoteDescription = TRUE]
                    /\ browsers'[b].logged = <<>>
                    /\ ~browsers'[b].rejected
               ELSE /\ SessionsKept(b)
                    /\ RemoteDescriptionErrorLogged(b)]_browsers

\* C18 witness: the page has just logged the error of a second answer of
\* peer 1: the connection has both descriptions, as the first answer left
\* it.
C18_Witness ==
    \E b \in Pages :
        LET br == browsers[b] IN
        /\ br.logged = <<[level |-> "error",
                          message |-> <<"Error setting remote description",
                                        "InvalidStateError">>]>>
        /\ br.peerConnections[1] # NoHandle
        /\ br.rtc[br.peerConnections[1]].signalingState = "stable"
        /\ br.rtc[br.peerConnections[1]].remoteDescription
        /\ br.rtc[br.peerConnections[1]].localDescription
        /\ br.rtc[br.peerConnections[1]].channel = "connecting"

\* ---------------------------------------------------------------- C19
\* the awaits at which a remote description or a remote candidate is applied
RemoteAwaits ==
    {"setRemoteDescription(offer)", "setRemoteDescription(answer)",
     "addIceCandidate"}

\* C19: when the library raises an error while a remote description (of an
\* offer or of an answer) or a remote candidate is applied, the error is
\* caught and logged at level error, the session of the peer stays in the
\* catalog in the stage it had, and the other sessions stay as they are.
C19_ErrorsCaughtAndLogged ==
    [][\A b \in Pages : Stirred(b) =>
        \A i \in 1..MaxPending, ok \in BOOLEAN :
            /\ i \in DOMAIN browsers[b].suspended
            /\ browsers[b].suspended[i].await \in RemoteAwaits
            /\ Settle(browsers[b].rtc[browsers[b].suspended[i].pc],
                      browsers[b].suspended[i].await, ok).error # "none"
            /\ Settled(b, i, ok)
            => /\ ~browsers'[b].rejected
               /\ \E k \in 1..Len(browsers'[b].logged) :
                    browsers'[b].logged[k].level = "error"
               /\ SessionsKept(b)]_browsers

\* ======================================================================
\* The relay and the pages together.  wire is a record:
\*   link[b]       the relay's transport at the other end of the WebSocket
\*                 of page b (0: not connected yet)
\*   toRelay[b]    the frames page b sent that the relay has not read yet
\*   toBrowser[b]  the envelopes the relay sent that page b has not read yet
\*   registered    history: the ids the relay registered, in that order
\*   offers        history: the offer envelopes the pages sent, as
\*                 [from |-> id of the sender, to |-> targetPeerId]
\* A WebSocket delivers in order, each way.
\* ======================================================================
NotLinked == 0

\* JSON.stringify by the page, JSON.parse by the relay: the properties of
\* the frame the relay reads
ToFrame(frame) ==
    [json |-> "object", type |-> frame.type,
     username |-> Get(frame, "username", Undefined),
     senderId |-> NoId,
     targetPeerId |-> Get(frame, "targetPeerId", NoId)]

\* The envelope as the page parses it.  The relay forwards the object it
\* parsed with every property the sender put in it: the candidate too.
Carried(envelope, frame) ==
    IF "targetPeerId" \in DOMAIN envelope /\ "candidate" \in DOMAIN frame
    THEN [type |-> envelope.type, username |-> envelope.username,
          senderId |-> envelope.senderId,
          targetPeerId |-> envelope.targetPeerId,
          candidate |-> frame.candidate]
    ELSE envelope

\* the offer envelopes among the frames page b sent in this step
RECURSIVE OffersIn(_, _)
OffersIn(frames, from) ==
    IF frames = <<>> THEN <<>>
    ELSE (IF Head(frames).type = "offer"
          THEN <<[from |-> from, to |-> Head(frames).targetPeerId]>>
          ELSE <<>>) \o OffersIn(Tail(frames), from)

\* what page b passed to ws.send in this step is on its way to the relay
Posted(w, b) ==
    [w EXCEPT !.toRelay[b] = @ \o browsers'[b].wsSent,
              !.offers = @ \o OffersIn(browsers'[b].wsSent,
                                       sockets[w.link[b]].clientId)]

\* what the relay passed to ws.send in this step, handling `frame`, is on
\* its way to the pages
Delivered(w, frame) ==
    [w EXCEPT !.toBrowser = [b \in DOMAIN @ |->
        IF w.link[b] = NotLinked THEN @[b]
        ELSE @[b] \o [k \in 1..Len(sent'[w.link[b]]) |->
                        Carried(sent'[w.link[b]][k], frame)]]]

\* no queue is longer than the bound
InBounds(w) ==
    \A b \in DOMAIN w.link :
        Len(w.toRelay[b]) <= MaxQueue /\ Len(w.toBrowser[b]) <= MaxQueue

\* new WebSocket(config.sigSrv) of page b reaches the relay
Accept(b) ==
    /\ browsers[b].ws = "CONNECTING"
    /\ wire.link[b] = NotLinked
    /\ Connection
    /\ wire' = [wire EXCEPT !.link[b] = Len(sockets) + 1]
    /\ UNCHANGED browsers

\* An event of page b, other than a frame of the relay, in which the page
\* sends on its WebSocket or goes on with a negotiation.  The data channels
\* run from page to page, past the relay: their events and the chat sends
\* touch neither the WebSocket nor the signaling state of a connection (see
\* OnDataChannel, ChannelOnOpen, ChannelOnClose and SendMessage) and are
\* left to ClientSpec.
PageEvent(b) ==
    \/ WsOpen(b)
    \/ \E i \in 1..MaxPending, ok \in BOOLEAN : Settled(b, i, ok)
    \/ \E h \in 1..MaxHandles, candidate \in Candidates \cup {NullCandidate} :
            IceCandidate(b, h, candidate)

PageStep(b) ==
    /\ wire.link[b] # NotLinked
    /\ PageEvent(b)
    /\ wire' = Posted(wire, b)
    /\ InBounds(wire')
    /\ UNCHANGED vars

\* page b reads the next envelope of the relay
PageReceive(b) ==
    /\ wire.link[b] # NotLinked
    /\ wire.toBrowser[b] # <<>>
    /\ WsMessage(b, Head(wire.toBrowser[b]))
    /\ wire' = Posted([wire EXCEPT !.toBrowser[b] = Tail(@)], b)
    /\ InBounds(wire')
    /\ UNCHANGED vars

\* the relay reads the first frame of page b: the register handler runs
RelayRegister(b) ==
    /\ wire.link[b] # NotLinked
    /\ wire.toRelay[b] # <<>>
    /\ OnceMessage(wire.link[b], ToFrame(Head(wire.toRelay[b])))
    /\ wire' = [Delivered([wire EXCEPT !.toRelay[b] = Tail(@)],
                          Head(wire.toRelay[b]))
                EXCEPT !.registered =
                    IF clients' # clients
                    THEN Append(@, sockets[wire.link[b]].clientId) ELSE @]
    /\ InBounds(wire')
    /\ UNCHANGED browsers

\* the relay reads a later frame of page b: the forwarding handler runs
RelayForward(b) ==
    /\ wire.link[b] # NotLinked
    /\ wire.toRelay[b] # <<>>
    /\ OnMessage(wire.link[b], ToFrame(Head(wire.toRelay[b])))
    /\ wire' = Delivered([wire EXCEPT !.toRelay[b] = Tail(@)],
                         Head(wire.toRelay[b]))
    /\ InBounds(wire')
    /\ UNCHANGED browsers

\* page b is closed: its WebSocket closes, what was in flight is dropped and
\* none of its callbacks runs any more
PageLeave(b) ==
    /\ wire.link[b] # NotLinked
    /\ browsers[b].ws = "OPEN"
    /\ Closing(wire.link[b])
    /\ browsers' = [browsers EXCEPT ![b].ws = "CLOSED"]
    /\ wire' = [wire EXCEPT !.toRelay[b] = <<>>, !.toBrowser[b] = <<>>]

\* the relay's 'close' event of the transport of page b
RelayClose(b) ==
    /\ wire.link[b] # NotLinked
    /\ browsers[b].ws = "CLOSED"
    /\ Close(wire.link[b])
    /\ wire' = Delivered(wire, [type |-> "close"])
    /\ InBounds(wire')
    /\ UNCHANGED browsers

SystemInit ==
    /\ nextClientId = 1
    /\ clients = <<>>
    /\ sockets = <<>>
    /\ sent = <<>>
    /\ crashed = FALSE
    /\ browsers = [b \in 1..MaxPages |-> InitP2PChat(PeerName(b), NoId)]
    /\ wire = [link |-> [b \in 1..MaxPages |-> NotLinked],
               toRelay |-> [b \in 1..MaxPages |-> <<>>],
               toBrowser |-> [b \in 1..MaxPages |-> <<>>],
               registered |-> <<>>,
               offers |-> <<>>]

SystemNext ==
    \/ \E b \in DOMAIN browsers : Accept(b)
    \/ \E b \in DOMAIN browsers : PageStep(b)
    \/ \E b \in DOMAIN browsers : PageReceive(b)
    \/ \E b \in DOMAIN browsers : RelayRegister(b)
    \/ \E b \in DOMAIN browsers : RelayForward(b)
    \/ \E b \in DOMAIN browsers : PageLeave(b)
    \/ \E b \in DOMAIN browsers : RelayClose(b)

System == SystemInit /\ [][SystemNext]_<<vars, browsers, wire>>

\* ---------------------------------------------------------------- C20
\* when the relay registered id: its place in the order of registrations
\* (0: not registered)
RegisteredAt(id) ==
    IF \E i \in 1..Len(wire.registered) : wire.registered[i] = id
    THEN CHOOSE i \in 1..Len(wire.registered) : wire.registered[i] = id
    ELSE 0

\* C20: of two registered peers only the one that registered later ever
\* sends the other an offer envelope, and it sends one at most: no pair of
\* peers has two offers between them, in the same or in opposite directions.
C20_OneOfferPerPair ==
    /\ \A i \in 1..Len(wire.offers) :
        /\ RegisteredAt(wire.offers[i].to) > 0
        /\ RegisteredAt(wire.offers[i].to) < RegisteredAt(wire.offers[i].from)
    /\ \A i, j \in 1..Len(wire.offers) :
        i # j => {wire.offers[i].from, wire.offers[i].to}
                 # {wire.offers[j].from, wire.offers[j].to}

\* C20 witness: the page the relay gave id 1 registered after the page with
\* id 2 and sent it the one offer of the run; both pages hold a connection
\* for each other with both descriptions set.
C20_Witness ==
    /\ wire.registered = <<2, 1>>
    /\ wire.offers = <<[from |-> 1, to |-> 2]>>
    /\ \A b \in Pages :
        /\ Len(browsers[b].rtc) = 1
        /\ browsers[b].rtc[1].signalingState = "stable"
        /\ browsers[b].rtc[1].localDescription
        /\ browsers[b].rtc[1].remoteDescription

====
